---------------------------- MODULE Spec2Model ----------------------------
(***************************************************************************)
(* A model of the three.js slider components of filipego/threejs-sliders:  *)
(*   - ThreeSliderDraggable.tsx           (variant "drag")                 *)
(*   - ThreeSlider.tsx, first component   (variant "wheel0", no props)     *)
(*   - ThreeSlider.tsx, second component  (variant "wheel", with props)    *)
(*                                                                         *)
(* Numbers.  The code computes in IEEE-754 doubles.  The model computes in *)
(* fixed point: a quantity q is the integer q * SCALE, products and        *)
(* quotients are truncated toward zero.  The two non-finite doubles the    *)
(* code can produce (0/0 and x/0 in the velocity estimate) are the         *)
(* sentinels NaN and Infinity, with JavaScript's rules for Math.max,       *)
(* Math.min, comparison and arithmetic.  Pixels and milliseconds are plain *)
(* integers.                                                               *)
(***************************************************************************)
EXTENDS Integers, Sequences, FiniteSets, TLC

SCALE == 100 * 100

\* ------------------------------------------------------------ bounds
\* The number of steps (events, frames, timers, loads) of one behaviour.
MaxSteps == 4
\* Texture loads of panels with index <= MaxLoadIndex complete within the
\* horizon; the loads of the other panels stay in flight.
MaxLoadIndex == 0

\* ------------------------------------------------------------ numbers
NaN == 2000000001
Infinity == 2000000000

Abs(a) == IF a < 0 THEN -a ELSE a

Sign(a) == IF a > 0 THEN 1 ELSE IF a < 0 THEN -1 ELSE 0

\* n / d truncated toward zero, d > 0.
Trunc(n, d) == IF n >= 0 THEN n \div d ELSE -((-n) \div d)

\* |a| * b / SCALE for a, b >= 0, without an intermediate product above 2^31.
MulAbs(a, b) == (a \div SCALE) * b + ((a % SCALE) * b) \div SCALE

\* The fixed-point product of two finite numbers.
Mul(a, b) ==
  IF (a < 0) = (b < 0) THEN MulAbs(Abs(a), Abs(b)) ELSE -MulAbs(Abs(a), Abs(b))

\* a * k for a possibly non-finite a >= 0 and a finite constant k > 0.
Times(a, k) ==
  IF a = NaN THEN NaN ELSE IF a = Infinity THEN Infinity ELSE Mul(a, k)

\* a + b where a may be NaN and b is finite.
Plus(a, b) == IF a = NaN THEN NaN ELSE a + b

\* Math.max: NaN if an argument is NaN.
MathMax(a, b) ==
  IF a = NaN \/ b = NaN THEN NaN
  ELSE IF a = Infinity \/ b = Infinity THEN Infinity
  ELSE IF a > b THEN a ELSE b

\* Math.min: NaN if an argument is NaN.
MathMin(a, b) ==
  IF a = NaN \/ b = NaN THEN NaN
  ELSE IF a = Infinity THEN b
  ELSE IF b = Infinity THEN a
  ELSE IF a < b THEN a ELSE b

\* a > b: false when an operand is NaN.
Gt(a, b) ==
  IF a = NaN \/ b = NaN THEN FALSE
  ELSE IF b = Infinity THEN FALSE
  ELSE IF a = Infinity THEN TRUE
  ELSE a > b

\* a < b: false when an operand is NaN.
Lt(a, b) == Gt(b, a)

\* a / b for a, b >= 0 (b > 0 when finite): the velocity ratio.
Ratio(a, b) ==
  IF a = NaN \/ b = NaN THEN NaN
  ELSE IF a = Infinity /\ b = Infinity THEN NaN
  ELSE IF b = Infinity THEN 0
  ELSE IF a = Infinity THEN Infinity
  ELSE ((a * 100) \div b) * 100 + (((a * 100) % b) * 100) \div b

\* cur + (tgt - cur) * k: the easing step, NaN if either end is NaN.
Lerp(cur, tgt, k) ==
  IF cur = NaN \/ tgt = NaN THEN NaN ELSE cur + Mul(tgt - cur, k)

\* JavaScript's %: the remainder has the sign of the dividend (b > 0).
JsRem(a, b) == IF a >= 0 THEN a % b ELSE -((-a) % b)

\* The sum of a velocity history (left to right, as Array.reduce).
RECURSIVE SumSeq(_)
SumSeq(s) ==
  IF s = <<>> THEN 0
  ELSE LET h == Head(s)
           t == SumSeq(Tail(s))
       IN IF h = NaN \/ t = NaN THEN NaN
          ELSE IF h = Infinity \/ t = Infinity THEN Infinity
          ELSE h + t

\* ------------------------------------------------------------ settings
dragSensitivity == 200
momentumMultiplier == 20000
smoothing == 1000
slideLerp == 750
distortionDecay == 9500
maxDistortion == 25000
distortionSensitivity == 1500
distortionSmoothing == 750
wheelSensitivity == 100
touchSensitivity == 100

\* ------------------------------------------------------------ props
Variants == {"drag", "wheel0", "wheel"}

\* The component's defaults (no props passed).
DefaultProps ==
  [slideWidth |-> 30000, slideHeight |-> 15000, gap |-> 1000,
   imageFitMode |-> "contain", slideCount |-> 10, imagesAvailable |-> 5]

\* The page's second slider.
PortraitProps ==
  [slideWidth |-> 12000, slideHeight |-> 20000, gap |-> 500,
   imageFitMode |-> "cover", slideCount |-> 8, imagesAvailable |-> 3]

\* A loop of two panels of the default size.
PairProps == [DefaultProps EXCEPT !.slideCount = 2]

PropsSet == {DefaultProps, PortraitProps}

slideUnit(p) == p.slideWidth + p.gap

totalWidth(p) == p.slideCount * (p.slideWidth + p.gap)


\* ------------------------------------------------------------ engine state
\* The refs of a component instance before its first effect run.
InitialRefs ==
  [currentPosition |-> 0, targetPosition |-> 0,
   isDragging |-> FALSE, dragStartX |-> 0, dragLastX |-> 0,
   isScrolling |-> FALSE, touchStartX |-> 0, touchLastX |-> 0,
   autoScrollSpeed |-> 0, lastTime |-> 0, prevPosition |-> 0,
   currentDistortionFactor |-> 0, targetDistortionFactor |-> 0,
   peakVelocity |-> 0, velocityHistory |-> <<0, 0, 0, 0, 0>>,
   animationFrameId |-> 0,
   rendererRef |-> FALSE, sceneRef |-> FALSE, cameraRef |-> FALSE,
   cursor |-> "default"]

\* The Engine State of the specification: what the integrator and the
\* input controller read and write.
EngineState(r) ==
  [currentPosition |-> r.currentPosition, targetPosition |-> r.targetPosition,
   autoScrollSpeed |-> r.autoScrollSpeed,
   isDragging |-> r.isDragging, isScrolling |-> r.isScrolling,
   currentDistortionFactor |-> r.currentDistortionFactor,
   targetDistortionFactor |-> r.targetDistortionFactor,
   velocityHistory |-> r.velocityHistory, peakVelocity |-> r.peakVelocity]

\* ------------------------------------------------------------ the frame
\* autoScrollSpeed after one frame of decay.
decayed(speed) ==
  LET speedBasedDecay == 9700 - Mul(Abs(speed), 5000)
      s == Mul(speed, IF 9200 > speedBasedDecay THEN 9200 ELSE speedBasedDecay)
  IN IF Abs(s) < 10 THEN 0 ELSE s

\* The momentum step: targetPosition and autoScrollSpeed.
momentum(v, r) ==
  CASE v = "drag" ->
         IF ~r.isDragging /\ Abs(r.autoScrollSpeed) > 10
         THEN [r EXCEPT !.targetPosition = @ + r.autoScrollSpeed,
                        !.autoScrollSpeed = decayed(@)]
         ELSE IF ~r.isDragging THEN [r EXCEPT !.autoScrollSpeed = 0]
         ELSE r
    [] v = "wheel" ->
         IF r.isScrolling /\ Abs(r.autoScrollSpeed) > 10
         THEN [r EXCEPT !.targetPosition = @ + r.autoScrollSpeed,
                        !.autoScrollSpeed = decayed(@)]
         ELSE [r EXCEPT !.autoScrollSpeed = 0]
    [] OTHER ->
         IF r.isScrolling
         THEN [r EXCEPT !.targetPosition = @ + r.autoScrollSpeed,
                        !.autoScrollSpeed = decayed(@)]
         ELSE r

\* |delta| / deltaTime, deltaTime = dt milliseconds: 0/0 is NaN, x/0 Infinity.
Velocity(delta, dt) ==
  IF dt = 0 THEN (IF delta = 0 THEN NaN ELSE Infinity)
  ELSE Trunc(Abs(delta) * 1000, dt)

\* The frame's deltaTime in milliseconds.
deltaTime(r, time) == IF r.lastTime # 0 THEN time - r.lastTime ELSE 16

\* A frame is computed in the order of the code, each step on the context
\* c = [r: the refs, dt: deltaTime in ms, cv: currentVelocity,
\*      avg: avgVelocity, dec: isDecelerating].

\* integrate with a smoothing step one and a half times the error.
integrateOvershoot(v, r, time, id) ==
  LET r1 == momentum(v, [r EXCEPT !.animationFrameId = id, !.lastTime = time,
                                  !.prevPosition = r.currentPosition])
  IN [r |-> [r1 EXCEPT !.currentPosition =
                         @ + Mul(r1.targetPosition - @, 15000)],
      dt |-> deltaTime(r, time), cv |-> 0, avg |-> 0, dec |-> FALSE]

\* The frame's first statements, then the momentum step and the smoothing
\* of currentPosition toward targetPosition.
integrate(v, r, time, id) ==
  LET r1 == momentum(v, [r EXCEPT !.animationFrameId = id, !.lastTime = time,
                                  !.prevPosition = r.currentPosition])
  IN [r |-> [r1 EXCEPT !.currentPosition =
                         @ + Mul(r1.targetPosition - @, smoothing)],
      dt |-> deltaTime(r, time), cv |-> 0, avg |-> 0, dec |-> FALSE]

\* currentVelocity, pushed into the 5-slot history.
measure(v, c) ==
  LET raw == Velocity(c.r.currentPosition - c.r.prevPosition, c.dt)
      currentVelocity == IF v = "wheel0" THEN raw ELSE MathMax(0, raw)
  IN [c EXCEPT !.cv = currentVelocity,
               !.r = [@ EXCEPT !.velocityHistory =
                                  Tail(Append(@, currentVelocity))]]

\* avgVelocity: the mean of the history.
average(c) ==
  LET sum == SumSeq(c.r.velocityHistory)
  IN [c EXCEPT !.avg = IF sum = NaN \/ sum = Infinity THEN sum
                       ELSE Trunc(sum, Len(c.r.velocityHistory))]

\* peakVelocity raised to avgVelocity.
raisePeak(c) ==
  [c EXCEPT !.r = [@ EXCEPT !.peakVelocity =
                              IF Gt(c.avg, @) THEN c.avg ELSE @]]

\* isDecelerating from the velocity ratio, then the decay of peakVelocity.
classify(c) ==
  LET peak == c.r.peakVelocity
      velocityRatio == IF Gt(peak, 10) THEN Ratio(c.avg, peak) ELSE 0
  IN [c EXCEPT !.dec = Lt(velocityRatio, 7000) /\ Gt(peak, 5000),
               !.r = [@ EXCEPT !.peakVelocity = Times(@, 9900)]]

\* targetDistortionFactor raised by the movement.
raiseDistortion(v, c) ==
  LET movementDistortion ==
        MathMin(SCALE, Times(c.cv, distortionSensitivity))
      raise == IF v = "drag" THEN Gt(c.cv, 500) \/ c.r.isDragging
               ELSE Gt(c.cv, 500)
  IN IF raise
     THEN [c EXCEPT !.r = [@ EXCEPT !.targetDistortionFactor =
                                       MathMax(@, movementDistortion)]]
     ELSE c

\* The frame's multiplier of targetDistortionFactor.
decayRate(v, c) ==
  LET fast == CASE v = "drag" -> c.dec \/ Lt(c.avg, 2000) \/ ~c.r.isDragging
                [] v = "wheel" -> c.dec \/ Lt(c.avg, 2000) \/ ~c.r.isScrolling
                [] OTHER -> c.dec \/ Lt(c.avg, 2000)
  IN IF fast THEN distortionDecay
     ELSE IF v = "drag" THEN Mul(distortionDecay, 9800)
     ELSE Mul(distortionDecay, 9000)

\* decayDistortion with an easing factor of 1.5: every frame steps past
\* the target.
decayDistortionOvershoot(v, c) ==
  LET tgt == Times(c.r.targetDistortionFactor, decayRate(v, c))
  IN [c.r EXCEPT !.targetDistortionFactor = tgt,
                 !.currentDistortionFactor = Lerp(@, tgt, 15000)]

\* The decay of targetDistortionFactor, then currentDistortionFactor eased
\* toward it.
decayDistortion(v, c) ==
  LET tgt == Times(c.r.targetDistortionFactor, decayRate(v, c))
  IN [c.r EXCEPT !.targetDistortionFactor = tgt,
                 !.currentDistortionFactor = Lerp(@, tgt, distortionSmoothing)]

\* The motion integrator and the distortion factors of one frame: the refs
\* after animate(time), whose requestAnimationFrame returned id.
animateRefs(v, r, time, id) ==
  decayDistortion(v,
    raiseDistortion(v,
      classify(raisePeak(average(measure(v, integrate(v, r, time, id)))))))

\* wrap without the fold of the upper half: in [0, tw).
wrapUnfolded(baseX, tw) == JsRem(JsRem(baseX, tw) + tw, tw)

\* wrap with the half-way test made inclusive (>= for >).
wrapInclusive(baseX, tw) ==
  LET m == JsRem(JsRem(baseX, tw) + tw, tw)
  IN IF 2 * m >= tw THEN m - tw ELSE m

\* The wrapped position of a raw offset: in (-tw/2, tw/2].
wrap(baseX, tw) ==
  LET m == JsRem(JsRem(baseX, tw) + tw, tw)
  IN IF 2 * m > tw THEN m - tw ELSE m

\* updateCurve without its guard.
updateCurveUnguarded(m, distortionFactor) ==
  [m EXCEPT !.curvature = Times(distortionFactor, maxDistortion)]

\* updateCurve: the displacement of a panel's vertices, here its maximal
\* curvature; a mesh without geometry or without originalVertices is left
\* as it is.
updateCurve(m, distortionFactor) ==
  IF m.geometry = "missing" \/ ~m.originalVertices THEN m
  ELSE [m EXCEPT !.curvature = Times(distortionFactor, maxDistortion)]

\* Whether the frame's last statement submits the scene to the renderer.
renders(r) == r.rendererRef /\ r.sceneRef /\ r.cameraRef

\* updateSlide without the jump: currentX is always eased.
updateSlideEased(p, r, m, i) ==
  LET tw == totalWidth(p)
      baseX == wrap(i * slideUnit(p) - r.currentPosition, tw)
      cx == m.currentX + Mul(baseX - m.currentX, slideLerp)
      visible == 4 * Abs(cx) < 3 * (tw + 2 * p.slideWidth)
      moved == [m EXCEPT !.targetX = baseX, !.currentX = cx]
  IN IF visible
     THEN updateCurve([moved EXCEPT !.x = cx], r.currentDistortionFactor)
     ELSE moved

\* One panel's step of the frame: wrap, jump detection, easing, culling and
\* the displacement written by updateCurve.
updateSlide(p, r, m, i) ==
  LET tw == totalWidth(p)
      baseX == wrap(i * slideUnit(p) - r.currentPosition, tw)
      isWrapping == Abs(baseX - m.targetX) > p.slideWidth * 2
      cx0 == IF isWrapping THEN baseX ELSE m.currentX
      cx == cx0 + Mul(baseX - cx0, slideLerp)
      visible == 4 * Abs(cx) < 3 * (tw + 2 * p.slideWidth)
      moved == [m EXCEPT !.targetX = baseX, !.currentX = cx]
  IN IF visible
     THEN updateCurve([moved EXCEPT !.x = cx], r.currentDistortionFactor)
     ELSE moved

\* animateSlides laying the panels out without the gap: slot i at
\* i x slideWidth.
animateSlidesNoGap(p, r, h, ids) ==
  [k \in DOMAIN h |->
     IF \E n \in 1..Len(ids) : ids[n] = k
     THEN LET n == CHOOSE n \in 1..Len(ids) : ids[n] = k
          IN [updateSlide(p, r, h[k], n - 1) EXCEPT
                !.targetX = wrap((n - 1) * p.slideWidth - r.currentPosition,
                                 totalWidth(p))]
     ELSE h[k]]

\* animateSlides with the slot number taken for the panel index.
animateSlidesOneBased(p, r, h, ids) ==
  [k \in DOMAIN h |->
     IF \E n \in 1..Len(ids) : ids[n] = k
     THEN LET n == CHOOSE n \in 1..Len(ids) : ids[n] = k
          IN updateSlide(p, r, h[k], n)
     ELSE h[k]]

\* slides.forEach of animate: the heap after the frame.  ids is the
\* registry (mesh ids in slot order, slot i at position i + 1).
animateSlides(p, r, h, ids) ==
  [k \in DOMAIN h |->
     IF \E n \in 1..Len(ids) : ids[n] = k
     THEN LET n == CHOOSE n \in 1..Len(ids) : ids[n] = k
          IN updateSlide(p, r, h[k], n - 1)
     ELSE h[k]]

\* ------------------------------------------------------------ input handlers
\* Each handler is the closure of one effect run: p are the props of that run.

\* handleMouseDown without the hit test.
handleMouseDownAnywhere(r, x, intersects) ==
  [r EXCEPT !.isDragging = TRUE, !.dragStartX = x, !.dragLastX = x,
            !.autoScrollSpeed = 0, !.peakVelocity = 0,
            !.cursor = "grabbing"]

\* handleMouseDown leaving the momentum as it is.
handleMouseDownKeepsMomentum(r, x, intersects) ==
  IF intersects
  THEN [r EXCEPT !.isDragging = TRUE, !.dragStartX = x, !.dragLastX = x,
                 !.peakVelocity = 0, !.cursor = "grabbing"]
  ELSE r

handleMouseDown(r, x, intersects) ==
  IF intersects
  THEN [r EXCEPT !.isDragging = TRUE, !.dragStartX = x, !.dragLastX = x,
                 !.autoScrollSpeed = 0, !.peakVelocity = 0,
                 !.cursor = "grabbing"]
  ELSE r

\* handleMouseMove measuring the delta from the press instead of from the
\* previous move.
handleMouseMoveFromStart(r, x, currentlyOverSlide) ==
  IF r.isDragging
  THEN LET deltaX == x - r.dragStartX
           dragStrength == MathMin(Abs(deltaX) * 200, SCALE)
       IN [r EXCEPT !.cursor = "grabbing",
                    !.dragLastX = x,
                    !.targetDistortionFactor =
                       MathMin(SCALE, Plus(@, dragStrength)),
                    !.targetPosition = @ - deltaX * dragSensitivity]
  ELSE [r EXCEPT !.cursor = IF currentlyOverSlide THEN "grab" ELSE "default"]

handleMouseMove(r, x, currentlyOverSlide) ==
  IF r.isDragging
  THEN LET deltaX == x - r.dragLastX
           dragStrength == MathMin(Abs(deltaX) * 200, SCALE)
       IN [r EXCEPT !.cursor = "grabbing",
                    !.dragLastX = x,
                    !.targetDistortionFactor =
                       MathMin(SCALE, Plus(@, dragStrength)),
                    !.targetPosition = @ - deltaX * dragSensitivity]
  ELSE [r EXCEPT !.cursor = IF currentlyOverSlide THEN "grab" ELSE "default"]

\* handleMouseUpOrLeave seeding the momentum of every release, slow ones
\* too.
handleMouseUpOrLeaveNoThreshold(r, finallyOverSlide) ==
  LET velocity == (r.dragLastX - r.dragStartX) * 50
      r1 == IF r.isDragging
            THEN [r EXCEPT
                    !.isDragging = FALSE,
                    !.autoScrollSpeed =
                       Mul(Mul(-velocity, momentumMultiplier), 500),
                    !.targetDistortionFactor =
                       MathMin(SCALE,
                         Plus(@, Mul(Mul(Abs(velocity),
                                         distortionSensitivity), 15000)))]
            ELSE r
  IN [r1 EXCEPT !.cursor = IF finallyOverSlide THEN "grab" ELSE "default"]

handleMouseUpOrLeave(r, finallyOverSlide) ==
  LET velocity == (r.dragLastX - r.dragStartX) * 50
      r1 == IF r.isDragging
            THEN IF Abs(velocity) > 5000
                 THEN [r EXCEPT
                         !.isDragging = FALSE,
                         !.autoScrollSpeed =
                            Mul(Mul(-velocity, momentumMultiplier), 500),
                         !.targetDistortionFactor =
                            MathMin(SCALE,
                              Plus(@, Mul(Mul(Abs(velocity),
                                              distortionSensitivity), 15000)))]
                 ELSE [r EXCEPT !.isDragging = FALSE]
            ELSE r
  IN [r1 EXCEPT !.cursor = IF finallyOverSlide THEN "grab" ELSE "default"]

\* handleKeyDown with the two arrows' directions exchanged.
handleKeyDownSwapped(p, r, key) ==
  IF key = "ArrowLeft"
  THEN [r EXCEPT !.targetPosition = @ - slideUnit(p),
                 !.targetDistortionFactor = MathMin(SCALE, Plus(@, 3000))]
  ELSE IF key = "ArrowRight"
  THEN [r EXCEPT !.targetPosition = @ + slideUnit(p),
                 !.targetDistortionFactor = MathMin(SCALE, Plus(@, 3000))]
  ELSE r

handleKeyDown(p, r, key) ==
  IF key = "ArrowLeft"
  THEN [r EXCEPT !.targetPosition = @ + slideUnit(p),
                 !.targetDistortionFactor = MathMin(SCALE, Plus(@, 3000))]
  ELSE IF key = "ArrowRight"
  THEN [r EXCEPT !.targetPosition = @ - slideUnit(p),
                 !.targetDistortionFactor = MathMin(SCALE, Plus(@, 3000))]
  ELSE r

\* handleWheel with the momentum seeded against the wheel's direction.
handleWheelReversed(r, deltaY) ==
  LET wheelStrength == MathMin(Abs(deltaY) * 10, SCALE)
  IN [r EXCEPT !.targetDistortionFactor = MathMin(SCALE, Plus(@, wheelStrength)),
               !.targetPosition = @ - deltaY * wheelSensitivity,
               !.isScrolling = TRUE,
               !.autoScrollSpeed =
                  -MathMin(Abs(deltaY) * 5, 500) * Sign(deltaY)]

\* The wheel handler (both wheel variants); deltaY in pixels.  The trailing
\* timer it restarts is part of the Wheel action.
handleWheel(r, deltaY) ==
  LET wheelStrength == MathMin(Abs(deltaY) * 10, SCALE)
  IN [r EXCEPT !.targetDistortionFactor = MathMin(SCALE, Plus(@, wheelStrength)),
               !.targetPosition = @ - deltaY * wheelSensitivity,
               !.isScrolling = TRUE,
               !.autoScrollSpeed =
                  MathMin(Abs(deltaY) * 5, 500) * Sign(deltaY)]

handleTouchStart(r, x) ==
  [r EXCEPT !.touchStartX = x, !.touchLastX = x, !.isScrolling = FALSE,
            !.autoScrollSpeed = 0, !.peakVelocity = 0]

handleTouchMove(v, r, touchX) ==
  LET deltaX == touchX - r.touchLastX
      touchStrength == MathMin(Abs(deltaX) * 200, SCALE)
  IN [r EXCEPT !.touchLastX = touchX,
               !.targetDistortionFactor = MathMin(SCALE, Plus(@, touchStrength)),
               !.targetPosition = @ - deltaX * touchSensitivity,
               !.isScrolling = IF v = "wheel0" THEN TRUE ELSE @]

\* Whether the release is a flick (|velocity| > 0.5).
isFlick(r) == Abs((r.touchLastX - r.touchStartX) * 50) > 5000

handleTouchEnd(v, r) ==
  LET velocity == (r.touchLastX - r.touchStartX) * 50
      flicked == [r EXCEPT
                    !.autoScrollSpeed =
                       Mul(Mul(-velocity, momentumMultiplier), 500),
                    !.targetDistortionFactor =
                       MathMin(SCALE, Mul(Abs(velocity) * 3,
                                          distortionSensitivity))]
  IN IF v = "wheel0"
     THEN [(IF isFlick(r) THEN flicked ELSE r) EXCEPT !.isScrolling = TRUE]
     ELSE IF isFlick(r) THEN [flicked EXCEPT !.isScrolling = TRUE]
     ELSE [r EXCEPT !.isScrolling = FALSE]

\* Whether touchend starts its 800 ms timer.
touchEndStartsTimer(v, r) == v = "wheel0" \/ isFlick(r)

\* ------------------------------------------------------------ state
Inst == {1, 2}

VARIABLES
  variant,    \* [Inst -> Variants]: which component the instance is
  props,      \* [Inst -> props]: the props of the instance's last render
  phase,      \* [Inst -> {"init", "mounted", "unmounted"}]
  effect,     \* [Inst -> {"none", "zero", "full"}]: the cleanup the last
              \*   effect run returned ("zero": the zero-size early return)
  gen,        \* [Inst -> Nat]: the number of effect runs so far
  refs,       \* [Inst -> refs record]: the useRef values
  slides,     \* [Inst -> Seq(mesh id)]: the panel registry
  heap,       \* [mesh id -> mesh]: every mesh created, mesh id <<inst, gen, index>>
  listeners,  \* [Inst -> set of registered listeners]
  raf,        \* the browser's pending requestAnimationFrame callbacks
  rafSeq,     \* the last id requestAnimationFrame returned
  timers,     \* the browser's pending setTimeout callbacks
  loads,      \* the texture loads in flight
  now,        \* performance.now(), in milliseconds
  err,        \* the errors raised so far (uncaught)
  ev,         \* the last step taken: [kind, inst, n, key]
  steps       \* the number of steps taken

vars == <<variant, props, phase, effect, gen, refs, slides, heap, listeners,
          raf, rafSeq, timers, loads, now, err, ev, steps>>

\* ------------------------------------------------------------ inputs
\* clientX of a press / touch start, and of a move.
DownXs == {100}
MoveXs == {130, 400}
Keys == {"ArrowLeft", "ArrowRight", "a"}
WheelDeltas == {-1200, 40, 500}
\* How far a frame's timestamp is ahead of the clock (0: a frame of the same
\* display refresh as another instance's, or one right after a timer).
FrameAdvances == {0, 16}
\* The images the loader may deliver: <<width, height>>.
Images == {<<1600, 400>>, <<500, 1000>>}

\* ------------------------------------------------------------ effect run
Range(f) == {f[x] : x \in DOMAIN f}

\* createSlide(index), before the centering.
createSlide(p, index) ==
  [index |-> index,
   x |-> index * slideUnit(p),
   targetX |-> index * slideUnit(p),
   currentX |-> index * slideUnit(p),
   scaleX |-> SCALE, scaleY |-> SCALE,
   geometry |-> "live", originalVertices |-> TRUE, material |-> "live",
   map |-> "none", color |-> "fallback",
   curvature |-> 0, inScene |-> TRUE]

\* The initial centering of one slide.
centered(p, m) ==
  LET x == m.x - Trunc(totalWidth(p), 2)
  IN [m EXCEPT !.x = x, !.targetX = x, !.currentX = x]

\* The listeners an effect run registers: <<target, type>>.
registered(v) ==
  IF v = "drag"
  THEN {<<"canvas", "mousedown">>, <<"window", "mousemove">>,
        <<"window", "mouseup">>, <<"window", "keydown">>,
        <<"window", "resize">>}
  ELSE {<<"canvas", "wheel">>, <<"window", "keydown">>,
        <<"canvas", "touchstart">>, <<"canvas", "touchmove">>,
        <<"canvas", "touchend">>, <<"window", "resize">>}

\* removed with the keydown listener forgotten.
removedButKeydown(v) ==
  IF v = "drag"
  THEN {<<"canvas", "mousedown">>, <<"window", "mousemove">>,
        <<"window", "mouseup">>, <<"window", "resize">>}
  ELSE {<<"canvas", "wheel">>,
        <<"canvas", "touchstart">>, <<"canvas", "touchmove">>,
        <<"canvas", "touchend">>, <<"window", "resize">>}

\* The listeners the cleanup removes: <<target, type>>.
removed(v) ==
  IF v = "drag"
  THEN {<<"canvas", "mousedown">>, <<"window", "mousemove">>,
        <<"window", "mouseup">>, <<"window", "keydown">>,
        <<"window", "resize">>}
  ELSE {<<"canvas", "wheel">>, <<"window", "keydown">>,
        <<"canvas", "touchstart">>, <<"canvas", "touchmove">>,
        <<"canvas", "touchend">>, <<"window", "resize">>}

\* cancelFrame cancelling the id before the last one.
cancelFrameStale(pending, id) ==
  IF id # 0 THEN {f \in pending : f.id # id - 1} ELSE pending

\* cancelFrame with the cancellation left out.
cancelFrameOmitted(pending, id) == pending

\* cancelAnimationFrame(id), guarded by `if (animationFrameId.current)`.
cancelFrame(pending, id) ==
  IF id # 0 THEN {f \in pending : f.id # id} ELSE pending

\* The cleanup's dispose of one slide.
disposeSlide(v, m) ==
  IF v = "wheel" THEN m
  ELSE [m EXCEPT !.geometry = "disposed",
                 !.map = IF @ = "live" THEN "disposed" ELSE @,
                 !.material = "disposed",
                 !.inScene = FALSE]

\* The part of the state an effect run or its cleanup works on.
World(i) ==
  [refs |-> refs[i], slides |-> slides[i], heap |-> heap,
   listeners |-> listeners[i], raf |-> raf, rafSeq |-> rafSeq,
   timers |-> timers, loads |-> loads, effect |-> effect[i], gen |-> gen[i]]

\* The cleanup function the last effect run of instance i returned.
cleanup(i, v, w) ==
  CASE w.effect = "zero" ->
         [w EXCEPT !.timers = {t \in @ : ~(t.inst = i /\ t.kind = "recheck")},
                   !.effect = "none"]
    [] w.effect = "full" ->
         [w EXCEPT
            !.raf = cancelFrame(@, w.refs.animationFrameId),
            !.listeners = {l \in @ : <<l.target, l.type>> \notin removed(v)},
            !.heap = [k \in DOMAIN @ |->
                        IF k \in Range(w.slides) THEN disposeSlide(v, @[k])
                        ELSE @[k]],
            !.slides = <<>>,
            !.refs = [@ EXCEPT !.rendererRef = FALSE, !.sceneRef = FALSE,
                               !.cameraRef = FALSE],
            !.timers = IF v = "drag" THEN @
                       ELSE {t \in @ : ~(t.inst = i /\ t.kind = "scroll")},
            !.effect = "none"]
    [] OTHER -> w

\* The effect run of instance i with props p at time t; zero: the container
\* reports a zero width or height (read by the drag variant only).
setup(i, v, p, zero, w, t) ==
  IF v = "drag" /\ zero
  THEN [w EXCEPT !.timers = @ \cup {[kind |-> "recheck", inst |-> i,
                                     due |-> t + 50]},
                 !.effect = "zero",
                 !.gen = @ + 1]
  ELSE
    LET g == w.gen + 1
        ids == [n \in 1..p.slideCount |-> <<i, g, n - 1>>]
        heap1 == [k \in DOMAIN w.heap \cup Range(ids) |->
                    IF k \in DOMAIN w.heap THEN w.heap[k]
                    ELSE centered(p, createSlide(p, k[3]))]
        refs1 == [w.refs EXCEPT
                    !.sceneRef = TRUE, !.cameraRef = TRUE, !.rendererRef = TRUE,
                    !.currentPosition = -Trunc(totalWidth(p), 2),
                    !.targetPosition = -Trunc(totalWidth(p), 2),
                    !.lastTime = t]
        id == w.rafSeq + 1
        refs2 == animateRefs(v, refs1, t, id)
    IN [w EXCEPT
          !.refs = refs2,
          !.slides = ids,
          !.heap = animateSlides(p, refs2, heap1, ids),
          !.listeners = @ \cup {[target |-> tt[1], type |-> tt[2], p |-> p]
                                  : tt \in registered(v)},
          !.raf = @ \cup {[id |-> id, inst |-> i, p |-> p]},
          !.rafSeq = id,
          !.loads = @ \cup {[mesh |-> k, p |-> p] : k \in Range(ids)},
          !.effect = "full",
          !.gen = g]

\* The variables after instance i's part of the state became w.
Apply(i, w) ==
  /\ refs' = [refs EXCEPT ![i] = w.refs]
  /\ slides' = [slides EXCEPT ![i] = w.slides]
  /\ heap' = w.heap
  /\ listeners' = [listeners EXCEPT ![i] = w.listeners]
  /\ raf' = w.raf
  /\ rafSeq' = w.rafSeq
  /\ timers' = w.timers
  /\ loads' = w.loads
  /\ effect' = [effect EXCEPT ![i] = w.effect]
  /\ gen' = [gen EXCEPT ![i] = w.gen]

Step(kind, i, n, key) ==
  /\ steps < MaxSteps
  /\ steps' = steps + 1
  /\ ev' = [kind |-> kind, inst |-> i, n |-> n, key |-> key]

\* The props an instance of variant v can be rendered with.
PropsOf(v) == IF v = "wheel0" THEN {DefaultProps} ELSE PropsSet

\* ------------------------------------------------------------ lifecycle
\* The first effect run of instance i.
Mount(i, zero) ==
  /\ phase[i] = "init"
  /\ zero => variant[i] = "drag"
  /\ Step("mount", i, 0, "")
  /\ phase' = [phase EXCEPT ![i] = "mounted"]
  /\ Apply(i, setup(i, variant[i], props[i], zero, World(i), now))
  /\ UNCHANGED <<variant, props, now, err>>

\* A render with other props: the cleanup of the last effect run, then the
\* effect run with the new props.
PropsChange(i, p, zero) ==
  /\ phase[i] = "mounted"
  /\ p \in PropsOf(variant[i]) \ {props[i]}
  /\ zero => variant[i] = "drag"
  /\ Step("rebuild", i, 0, "")
  /\ props' = [props EXCEPT ![i] = p]
  /\ Apply(i, setup(i, variant[i], p, zero,
                    cleanup(i, variant[i], World(i)), now))
  /\ UNCHANGED <<variant, phase, now, err>>

\* The unmount: the cleanup of the last effect run.
Unmount(i) ==
  /\ phase[i] = "mounted"
  /\ Step("unmount", i, 0, "")
  /\ phase' = [phase EXCEPT ![i] = "unmounted"]
  /\ Apply(i, cleanup(i, variant[i], World(i)))
  /\ UNCHANGED <<variant, props, now, err>>

\* ------------------------------------------------------------ frames
\* One requestAnimationFrame callback f: animate(time) of the closure that
\* was scheduled, time = now + adv.  Timers that are due run first.
Frame(f, adv) ==
  LET i == f.inst
      time == now + adv
      id == rafSeq + 1
      r == animateRefs(variant[i], refs[i], time, id)
  IN /\ f \in raf
     /\ \A t \in timers : t.due > now
     /\ time > refs[i].lastTime
     /\ Step("frame", i, adv, "")
     /\ now' = time
     /\ refs' = [refs EXCEPT ![i] = r]
     /\ heap' = animateSlides(f.p, r, heap, slides[i])
     /\ raf' = (raf \ {f}) \cup {[id |-> id, inst |-> i, p |-> f.p]}
     /\ rafSeq' = id
     /\ UNCHANGED <<variant, props, phase, effect, gen, slides, listeners,
                    timers, loads, err>>

\* ------------------------------------------------------------ input events
Listening(i, target, type) ==
  \E l \in listeners[i] : l.target = target /\ l.type = type

\* The props the registered handler closes over.
ListenerProps(i, target, type) ==
  (CHOOSE l \in listeners[i] : l.target = target /\ l.type = type).p

\* checkSlideIntersection can only hit with a camera and a non-empty registry.
canHit(i) == refs[i].cameraRef /\ slides[i] # <<>>

\* mousedown on the canvas of instance i.
MouseDown(i, x, intersects) ==
  /\ phase[i] = "mounted" /\ variant[i] = "drag"
  /\ intersects => canHit(i)
  /\ Step("mousedown", i, x, IF intersects THEN "hit" ELSE "miss")
  /\ refs' = [refs EXCEPT ![i] =
                IF Listening(i, "canvas", "mousedown")
                THEN handleMouseDown(@, x, intersects) ELSE @]
  /\ UNCHANGED <<variant, props, phase, effect, gen, slides, heap, listeners,
                 raf, rafSeq, timers, loads, now, err>>

\* mousemove on the window, the pointer over a panel of instance `over`
\* (0: over no panel): every instance's handler runs.
MouseMove(x, over) ==
  /\ \E i \in Inst : variant[i] = "drag" /\ phase[i] # "init"
  /\ over # 0 => canHit(over)
  /\ Step("mousemove", 0, x, "")
  /\ refs' = [i \in Inst |->
                IF Listening(i, "window", "mousemove")
                THEN handleMouseMove(refs[i], x, over = i) ELSE refs[i]]
  /\ UNCHANGED <<variant, props, phase, effect, gen, slides, heap, listeners,
                 raf, rafSeq, timers, loads, now, err>>

\* mouseup on the window.
MouseUp(over) ==
  /\ \E i \in Inst : variant[i] = "drag" /\ phase[i] # "init"
  /\ over # 0 => canHit(over)
  /\ Step("mouseup", 0, over, "")
  /\ refs' = [i \in Inst |->
                IF Listening(i, "window", "mouseup")
                THEN handleMouseUpOrLeave(refs[i], over = i) ELSE refs[i]]
  /\ UNCHANGED <<variant, props, phase, effect, gen, slides, heap, listeners,
                 raf, rafSeq, timers, loads, now, err>>

\* The pointer leaves the canvas of instance i (and with it, maybe, the
\* window): a mouseleave event, handled by whatever is registered for it.
MouseLeave(i) ==
  /\ phase[i] = "mounted" /\ variant[i] = "drag"
  /\ Step("mouseleave", i, 0, "")
  /\ refs' = [refs EXCEPT ![i] =
                IF \/ Listening(i, "canvas", "mouseleave")
                   \/ Listening(i, "window", "mouseleave")
                THEN handleMouseUpOrLeave(@, FALSE) ELSE @]
  /\ UNCHANGED <<variant, props, phase, effect, gen, slides, heap, listeners,
                 raf, rafSeq, timers, loads, now, err>>

\* keydown on the window: every instance's handler runs.
KeyDown(key) ==
  /\ \E i \in Inst : phase[i] # "init"
  /\ Step("keydown", 0, 0, key)
  /\ refs' = [i \in Inst |->
                IF Listening(i, "window", "keydown")
                THEN handleKeyDown(ListenerProps(i, "window", "keydown"),
                                   refs[i], key)
                ELSE refs[i]]
  /\ UNCHANGED <<variant, props, phase, effect, gen, slides, heap, listeners,
                 raf, rafSeq, timers, loads, now, err>>

\* resize of the window: handleResize changes the camera aspect and the
\* renderer size only, which are not part of the model's state.
Resize ==
  /\ \E i \in Inst : phase[i] # "init"
  /\ Step("resize", 0, 0, "")
  /\ UNCHANGED <<variant, props, phase, effect, gen, refs, slides, heap,
                 listeners, raf, rafSeq, timers, loads, now, err>>

\* wheel on the canvas of instance i: the handler restarts the 150 ms timer.
Wheel(i, deltaY) ==
  /\ phase[i] = "mounted" /\ variant[i] # "drag"
  /\ Step("wheel", i, deltaY, "")
  /\ IF Listening(i, "canvas", "wheel")
     THEN /\ refs' = [refs EXCEPT ![i] = handleWheel(@, deltaY)]
          /\ timers' = {t \in timers : ~(t.inst = i /\ t.kind = "scroll")}
                         \cup {[kind |-> "scroll", inst |-> i,
                                due |-> now + 150]}
     ELSE UNCHANGED <<refs, timers>>
  /\ UNCHANGED <<variant, props, phase, effect, gen, slides, heap, listeners,
                 raf, rafSeq, loads, now, err>>

TouchStart(i, x) ==
  /\ phase[i] = "mounted" /\ variant[i] # "drag"
  /\ Step("touchstart", i, x, "")
  /\ refs' = [refs EXCEPT ![i] =
                IF Listening(i, "canvas", "touchstart")
                THEN handleTouchStart(@, x) ELSE @]
  /\ UNCHANGED <<variant, props, phase, effect, gen, slides, heap, listeners,
                 raf, rafSeq, timers, loads, now, err>>

TouchMove(i, x) ==
  /\ phase[i] = "mounted" /\ variant[i] # "drag"
  /\ Step("touchmove", i, x, "")
  /\ refs' = [refs EXCEPT ![i] =
                IF Listening(i, "canvas", "touchmove")
                THEN handleTouchMove(variant[i], @, x) ELSE @]
  /\ UNCHANGED <<variant, props, phase, effect, gen, slides, heap, listeners,
                 raf, rafSeq, timers, loads, now, err>>

\* touchend on the canvas of instance i: may start an 800 ms timer, which
\* no variable of the effect run keeps.
TouchEnd(i) ==
  /\ phase[i] = "mounted" /\ variant[i] # "drag"
  /\ Step("touchend", i, 0, "")
  /\ IF Listening(i, "canvas", "touchend")
     THEN /\ refs' = [refs EXCEPT ![i] = handleTouchEnd(variant[i], @)]
          /\ timers' = IF touchEndStartsTimer(variant[i], refs[i])
                       THEN timers \cup {[kind |-> "touchEnd", inst |-> i,
                                          due |-> now + 800]}
                       ELSE timers
     ELSE UNCHANGED <<refs, timers>>
  /\ UNCHANGED <<variant, props, phase, effect, gen, slides, heap, listeners,
                 raf, rafSeq, loads, now, err>>

\* ------------------------------------------------------------ timers
\* Time passes, with no frame, until the next timer is due.
Tick ==
  /\ timers # {}
  /\ \A t \in timers : t.due > now
  /\ Step("tick", 0, 0, "")
  /\ now' = CHOOSE d \in {t.due : t \in timers} :
                     \A t \in timers : d <= t.due
  /\ UNCHANGED <<variant, props, phase, effect, gen, refs, slides, heap,
                 listeners, raf, rafSeq, timers, loads, err>>

\* A due timer's callback.  The zero-size re-check calls handleResize, a
\* const of the effect run that returned before initialising it: the call
\* raises a ReferenceError.  The two scroll timers clear isScrolling.
TimerFire(t) ==
  /\ t \in timers
  /\ t.due <= now
  /\ Step("timer", t.inst, 0, t.kind)
  /\ timers' = timers \ {t}
  /\ IF t.kind = "recheck"
     THEN /\ err' = err \cup {[inst |-> t.inst, error |-> "ReferenceError"]}
          /\ UNCHANGED refs
     ELSE /\ refs' = [refs EXCEPT ![t.inst].isScrolling = FALSE]
          /\ UNCHANGED err
  /\ UNCHANGED <<variant, props, phase, effect, gen, slides, heap, listeners,
                 raf, rafSeq, loads, now>>

\* ------------------------------------------------------------ texture loads
\* onLoad with the two fit modes exchanged.
onLoadSwapped(v, p, m, img) ==
  LET imgAspect == Trunc(img[1] * SCALE, img[2])
      slideAspect == Trunc(p.slideWidth * SCALE, p.slideHeight)
      m2 == [m EXCEPT !.map = "live", !.color = "white",
                      !.scaleX = SCALE, !.scaleY = SCALE]
      contain == v = "wheel0" \/ p.imageFitMode = "contain"
  IN IF contain = (imgAspect > slideAspect)
     THEN [m2 EXCEPT !.scaleX = Trunc(imgAspect * SCALE, slideAspect)]
     ELSE [m2 EXCEPT !.scaleY = Trunc(slideAspect * SCALE, imgAspect)]

\* The loader's success callback on mesh m, for an image <<width, height>>.
onLoad(v, p, m, img) ==
  LET imgAspect == Trunc(img[1] * SCALE, img[2])
      slideAspect == Trunc(p.slideWidth * SCALE, p.slideHeight)
      m1 == [m EXCEPT !.map = "live", !.color = "white"]
      m2 == IF v = "wheel0" THEN m1
            ELSE [m1 EXCEPT !.scaleX = SCALE, !.scaleY = SCALE]
      contain == v = "wheel0" \/ p.imageFitMode = "contain"
  IN IF contain = (imgAspect > slideAspect)
     THEN [m2 EXCEPT !.scaleY = Trunc(slideAspect * SCALE, imgAspect)]
     ELSE [m2 EXCEPT !.scaleX = Trunc(imgAspect * SCALE, slideAspect)]

\* onError that also drops the panel's own colour.
onErrorWhite(m) == [m EXCEPT !.color = "white"]

\* The loader's error callback on mesh m: it logs a warning.
onError(m) == m

\* A texture load completes: with an image, or (ok = FALSE) with an error,
\* which the error callback only logs.
LoadDone(l, ok, img) ==
  /\ l \in loads
  /\ l.mesh[3] <= MaxLoadIndex
  /\ Step(IF ok THEN "load" ELSE "loaderror", l.mesh[1], l.mesh[2], "")
  /\ loads' = loads \ {l}
  /\ heap' = [heap EXCEPT ![l.mesh] =
                IF ok THEN onLoad(variant[l.mesh[1]], l.p, @, img)
                ELSE onError(@)]
  /\ UNCHANGED <<variant, props, phase, effect, gen, refs, slides, listeners,
                 raf, rafSeq, timers, now, err>>

\* ------------------------------------------------------------ specifications
InitWith(vs, ps) ==
  /\ variant = vs
  /\ props = ps
  /\ phase = [i \in Inst |-> "init"]
  /\ effect = [i \in Inst |-> "none"]
  /\ gen = [i \in Inst |-> 0]
  /\ refs = [i \in Inst |-> InitialRefs]
  /\ slides = [i \in Inst |-> <<>>]
  /\ heap = <<>>
  /\ listeners = [i \in Inst |-> {}]
  /\ raf = {}
  /\ rafSeq = 0
  /\ timers = {}
  /\ loads = {}
  /\ now = 1000
  /\ err = {}
  /\ ev = [kind |-> "init", inst |-> 0, n |-> 0, key |-> ""]
  /\ steps = 0

\* One slider on the page (instance 1), of any variant, rendered with any
\* of the props.
Init ==
  \E v \in Variants : \E p \in PropsOf(v) :
    InitWith([i \in Inst |-> v], [i \in Inst |-> p])

Next ==
  \/ \E zero \in BOOLEAN : Mount(1, zero)
  \/ \E p \in PropsSet, zero \in BOOLEAN : PropsChange(1, p, zero)
  \/ Unmount(1)
  \/ \E f \in raf, adv \in FrameAdvances : Frame(f, adv)
  \/ \E x \in DownXs, hit \in BOOLEAN : MouseDown(1, x, hit)
  \/ \E x \in MoveXs, over \in {0, 1} : MouseMove(x, over)
  \/ \E over \in {0, 1} : MouseUp(over)
  \/ \E key \in Keys : KeyDown(key)
  \/ Resize
  \/ \E d \in WheelDeltas : Wheel(1, d)
  \/ \E x \in DownXs : TouchStart(1, x)
  \/ \E x \in MoveXs : TouchMove(1, x)
  \/ TouchEnd(1)
  \/ Tick
  \/ \E t \in timers : TimerFire(t)
  \/ \E l \in loads, ok \in BOOLEAN, img \in Images : LoadDone(l, ok, img)

Spec == Init /\ [][Next]_vars

\* The page of page.tsx: two drag sliders, the default one and the portrait
\* one, on one window.
InitPage ==
  InitWith([i \in Inst |-> "drag"],
           [i \in Inst |-> IF i = 1 THEN DefaultProps ELSE PortraitProps])

NextPage ==
  \/ \E i \in Inst : Mount(i, FALSE)
  \/ \E i \in Inst : Unmount(i)
  \/ \E f \in raf, adv \in FrameAdvances : Frame(f, adv)
  \/ \E i \in Inst, x \in DownXs, hit \in BOOLEAN : MouseDown(i, x, hit)
  \/ \E x \in MoveXs, over \in {0} \cup Inst : MouseMove(x, over)
  \/ \E over \in {0} \cup Inst : MouseUp(over)
  \/ \E key \in Keys : KeyDown(key)

SpecPage == InitPage /\ [][NextPage]_vars

\* One slider with props, rendered as a loop of two panels.
InitPair ==
  \E v \in {"drag", "wheel"} :
    InitWith([i \in Inst |-> v], [i \in Inst |-> PairProps])

NextPair ==
  \/ Mount(1, FALSE)
  \/ Unmount(1)
  \/ \E f \in raf, adv \in FrameAdvances : Frame(f, adv)
  \/ \E key \in Keys : KeyDown(key)
  \/ \E d \in WheelDeltas : Wheel(1, d)
  \/ \E x \in DownXs, hit \in BOOLEAN : MouseDown(1, x, hit)
  \/ \E x \in MoveXs, over \in {0, 1} : MouseMove(x, over)

SpecPair == InitPair /\ [][NextPair]_vars

\* A drag slider and its pointer: presses, moves, releases, and the pointer
\* leaving the canvas.
InitPointer ==
  \E p \in PropsSet : InitWith([i \in Inst |-> "drag"], [i \in Inst |-> p])

NextPointer ==
  \/ Mount(1, FALSE)
  \/ \E f \in raf, adv \in FrameAdvances : Frame(f, adv)
  \/ \E x \in DownXs, hit \in BOOLEAN : MouseDown(1, x, hit)
  \/ \E x \in MoveXs, over \in {0, 1} : MouseMove(x, over)
  \/ \E over \in {0, 1} : MouseUp(over)
  \/ MouseLeave(1)

SpecPointer == InitPointer /\ [][NextPointer]_vars

\* The frame as a function of the panels it is given.  No effect run makes
\* a panel without geometry or without originalVertices; the guard of
\* updateCurve is there for a mesh that lost them.  Here one panel of a
\* mounted slider has lost one of the two.
DamagedSlots == {1, 3}

Damages == {"geometry", "originalVertices"}

damaged(m, what) ==
  IF what = "geometry" THEN [m EXCEPT !.geometry = "missing"]
  ELSE [m EXCEPT !.originalVertices = FALSE]

\* The first effect run of instance 1 of variant v with props p, at time t.
mounted(v, p, t) ==
  setup(1, v, p, FALSE,
        [refs |-> InitialRefs, slides |-> <<>>, heap |-> <<>>,
         listeners |-> {}, raf |-> {}, rafSeq |-> 0, timers |-> {},
         loads |-> {}, effect |-> "none", gen |-> 0],
        t)

InitDamagedWith(v, p, n, what) ==
  LET w == mounted(v, p, 1000)
  IN /\ variant = [i \in Inst |-> v]
     /\ props = [i \in Inst |-> p]
     /\ phase = [i \in Inst |-> IF i = 1 THEN "mounted" ELSE "init"]
     /\ effect = [i \in Inst |-> IF i = 1 THEN w.effect ELSE "none"]
     /\ gen = [i \in Inst |-> IF i = 1 THEN w.gen ELSE 0]
     /\ refs = [i \in Inst |-> IF i = 1 THEN w.refs ELSE InitialRefs]
     /\ slides = [i \in Inst |-> IF i = 1 THEN w.slides ELSE <<>>]
     /\ heap = [w.heap EXCEPT ![w.slides[n]] = damaged(@, what)]
     /\ listeners = [i \in Inst |-> IF i = 1 THEN w.listeners ELSE {}]
     /\ raf = w.raf
     /\ rafSeq = w.rafSeq
     /\ timers = w.timers
     /\ loads = w.loads
     /\ now = 1000
     /\ err = {}
     /\ ev = [kind |-> "mount", inst |-> 1, n |-> 0, key |-> ""]
     /\ steps = 0

InitDamaged ==
  \E v \in Variants : \E p \in PropsOf(v) :
    \E n \in DamagedSlots, what \in Damages : InitDamagedWith(v, p, n, what)

NextDamaged ==
  \/ \E f \in raf, adv \in FrameAdvances : Frame(f, adv)
  \/ \E key \in Keys : KeyDown(key)
  \/ \E l \in loads, ok \in BOOLEAN, img \in Images : LoadDone(l, ok, img)

SpecDamaged == InitDamaged /\ [][NextDamaged]_vars

\* A wheel/touch slider just after a touch flick: mounted at time 1000,
\* touched at 100, moved to 400 and released, all before the next frame.
\* The release has started its 800 ms timer.
flicked(v, r) ==
  handleTouchEnd(v, handleTouchMove(v, handleTouchStart(r, 100), 400))

InitScrollWith(v, p) ==
  LET w == mounted(v, p, 1000)
  IN /\ variant = [i \in Inst |-> v]
     /\ props = [i \in Inst |-> p]
     /\ phase = [i \in Inst |-> IF i = 1 THEN "mounted" ELSE "init"]
     /\ effect = [i \in Inst |-> IF i = 1 THEN w.effect ELSE "none"]
     /\ gen = [i \in Inst |-> IF i = 1 THEN w.gen ELSE 0]
     /\ refs = [i \in Inst |->
                  IF i = 1 THEN flicked(v, w.refs) ELSE InitialRefs]
     /\ slides = [i \in Inst |-> IF i = 1 THEN w.slides ELSE <<>>]
     /\ heap = w.heap
     /\ listeners = [i \in Inst |-> IF i = 1 THEN w.listeners ELSE {}]
     /\ raf = w.raf
     /\ rafSeq = w.rafSeq
     /\ timers = w.timers \cup {[kind |-> "touchEnd", inst |-> 1,
                                 due |-> 1000 + 800]}
     /\ loads = w.loads
     /\ now = 1000
     /\ err = {}
     /\ ev = [kind |-> "touchend", inst |-> 1, n |-> 0, key |-> ""]
     /\ steps = 0

InitScroll ==
  \E v \in {"wheel0", "wheel"} : \E p \in PropsOf(v) : InitScrollWith(v, p)

NextScroll ==
  \/ \E f \in raf, adv \in FrameAdvances : Frame(f, adv)
  \/ \E d \in WheelDeltas : Wheel(1, d)
  \/ Tick
  \/ \E t \in timers : TimerFire(t)

SpecScroll == InitScroll /\ [][NextScroll]_vars

\* A drag slider just after a pointer flick: mounted at time 1000, pressed
\* on a panel at 100, moved to 400 and released, all before the next frame.
\* The release has seeded the momentum.
flung(r) ==
  handleMouseUpOrLeave(
    handleMouseMove(handleMouseDown(r, 100, TRUE), 400, TRUE), TRUE)

InitFlungWith(p) ==
  LET w == mounted("drag", p, 1000)
  IN /\ variant = [i \in Inst |-> "drag"]
     /\ props = [i \in Inst |-> p]
     /\ phase = [i \in Inst |-> IF i = 1 THEN "mounted" ELSE "init"]
     /\ effect = [i \in Inst |-> IF i = 1 THEN w.effect ELSE "none"]
     /\ gen = [i \in Inst |-> IF i = 1 THEN w.gen ELSE 0]
     /\ refs = [i \in Inst |-> IF i = 1 THEN flung(w.refs) ELSE InitialRefs]
     /\ slides = [i \in Inst |-> IF i = 1 THEN w.slides ELSE <<>>]
     /\ heap = w.heap
     /\ listeners = [i \in Inst |-> IF i = 1 THEN w.listeners ELSE {}]
     /\ raf = w.raf
     /\ rafSeq = w.rafSeq
     /\ timers = w.timers
     /\ loads = w.loads
     /\ now = 1000
     /\ err = {}
     /\ ev = [kind |-> "mouseup", inst |-> 0, n |-> 1, key |-> ""]
     /\ steps = 0

InitFlung == \E p \in PropsSet : InitFlungWith(p)

NextFlung ==
  \/ \E f \in raf, adv \in FrameAdvances : Frame(f, adv)
  \/ \E x \in DownXs, hit \in BOOLEAN : MouseDown(1, x, hit)
  \/ \E x \in MoveXs, over \in {0, 1} : MouseMove(x, over)
  \/ \E over \in {0, 1} : MouseUp(over)
  \/ \E key \in Keys : KeyDown(key)

SpecFlung == InitFlung /\ [][NextFlung]_vars

\* A slider whose frame loop has stalled while arrow-key presses (held key,
\* key repeat) kept arriving: mounted at time 1000, then BurstLen presses
\* of one arrow key before the next frame.
BurstLen == 25

RECURSIVE pressed(_, _, _, _)
pressed(p, r, key, n) ==
  IF n = 0 THEN r ELSE pressed(p, handleKeyDown(p, r, key), key, n - 1)

InitBurstWith(v, p, key) ==
  LET w == mounted(v, p, 1000)
  IN /\ variant = [i \in Inst |-> v]
     /\ props = [i \in Inst |-> p]
     /\ phase = [i \in Inst |-> IF i = 1 THEN "mounted" ELSE "init"]
     /\ effect = [i \in Inst |-> IF i = 1 THEN w.effect ELSE "none"]
     /\ gen = [i \in Inst |-> IF i = 1 THEN w.gen ELSE 0]
     /\ refs = [i \in Inst |->
                  IF i = 1 THEN pressed(p, w.refs, key, BurstLen)
                  ELSE InitialRefs]
     /\ slides = [i \in Inst |-> IF i = 1 THEN w.slides ELSE <<>>]
     /\ heap = w.heap
     /\ listeners = [i \in Inst |-> IF i = 1 THEN w.listeners ELSE {}]
     /\ raf = w.raf
     /\ rafSeq = w.rafSeq
     /\ timers = w.timers
     /\ loads = w.loads
     /\ now = 1000
     /\ err = {}
     /\ ev = [kind |-> "keydown", inst |-> 0, n |-> 0, key |-> key]
     /\ steps = 0

InitBurst ==
  \E v \in Variants : \E p \in PropsOf(v) :
    \E key \in {"ArrowLeft", "ArrowRight"} : InitBurstWith(v, p, key)

NextBurst ==
  \/ \E f \in raf, adv \in FrameAdvances : Frame(f, adv)
  \/ \E key \in Keys : KeyDown(key)

SpecBurst == InitBurst /\ [][NextBurst]_vars

\* ------------------------------------------------------------ claims
\* The panels of the registry of instance i, in slot order.
Panels(i) == [n \in 1..Len(slides[i]) |-> heap[slides[i][n]]]

\* The meshes of instance i that are no longer in its registry.
TornMeshes(i) == {k \in DOMAIN heap : k[1] = i /\ k \notin Range(slides[i])}

InputKinds ==
  {"mousedown", "mousemove", "mouseup", "keydown", "resize",
   "wheel", "touchstart", "touchmove", "touchend"}

Min2(a, b) == IF a < b THEN a ELSE b

\* C1: in every reachable state, every panel of the registry has its wrapped
\* targetX in the half-open interval (-totalWidth/2, totalWidth/2].
C1_WrapInvariant ==
  \A i \in Inst : \A n \in 1..Len(slides[i]) :
    LET tw == totalWidth(props[i])
        targetX == Panels(i)[n].targetX
    IN -tw < 2 * targetX /\ 2 * targetX <= tw

\* C1 witness: a frame ran after the scroll position moved, and it wrapped a
\* panel whose raw offset lies beyond totalWidth/2 to the negative half.
C1_Witness ==
  /\ ev.kind = "frame"
  /\ refs[1].currentPosition # -Trunc(totalWidth(props[1]), 2)
  /\ \E n \in 1..Len(slides[1]) :
       /\ 2 * ((n - 1) * slideUnit(props[1]) - refs[1].currentPosition)
            > totalWidth(props[1])
       /\ Panels(1)[n].targetX < 0

\* A distortion factor is a defined number in [0, 1].
InUnit(x) == x # NaN /\ x # Infinity /\ 0 <= x /\ x <= SCALE

\* C2 (as claimed): in every reachable state both distortion factors are
\* defined numbers in [0, 1].
C2_DistortionInUnit ==
  \A i \in Inst :
    /\ InUnit(refs[i].targetDistortionFactor)
    /\ InUnit(refs[i].currentDistortionFactor)

\* C3: every pending frame callback belongs to the live effect run of a
\* mounted instance (it is the one animationFrameId names, scheduled by that
\* run's animate), and a frame only ever runs on such an instance: after a
\* teardown no frame of the torn-down run is pending or runs.
C3_NoFrameAfterTeardown ==
  /\ \A f \in raf :
       /\ phase[f.inst] = "mounted"
       /\ effect[f.inst] = "full"
       /\ f.id = refs[f.inst].animationFrameId
       /\ f.p = props[f.inst]
  /\ ev.kind = "frame" => phase[ev.inst] = "mounted" /\ effect[ev.inst] = "full"

\* C3 witness: an unmount after frames have run, with nothing left pending.
C3_Witness ==
  /\ ev.kind = "unmount"
  /\ refs[1].lastTime > 1000
  /\ refs[1].animationFrameId > 1
  /\ raf = {}

\* The Engine State an input event may write.
InputFields(r) ==
  <<r.targetPosition, r.autoScrollSpeed, r.targetDistortionFactor,
    r.isDragging, r.dragStartX, r.dragLastX,
    r.isScrolling, r.touchStartX, r.touchLastX, r.peakVelocity>>

\* C4: an instance whose effect has been torn down has no listener left, and
\* an input event then leaves its targetPosition, autoScrollSpeed,
\* targetDistortionFactor and drag/scroll state unchanged.
C4_ListenersRemoved ==
  [][\A i \in Inst :
       (phase[i] # "init" /\ effect[i] # "full") =>
         /\ listeners[i] = {}
         /\ ev'.kind \in InputKinds =>
              InputFields(refs'[i]) = InputFields(refs[i])]_vars

\* C4 witness: an arrow key pressed after the unmount of an instance that
\* had been fully mounted.
C4_Witness ==
  /\ ev.kind = "keydown" /\ ev.key = "ArrowLeft"
  /\ phase[1] = "unmounted"
  /\ refs[1].lastTime # 0

\* A mesh whose geometry, material and texture have been released.
Released(m) ==
  m.geometry = "disposed" /\ m.material = "disposed" /\ m.map # "live"

\* C5 (as claimed): right after a teardown every panel of the torn-down run
\* is released, the registry of an unmounted instance is empty and its
\* renderer, scene and camera handles are null.
C5_AllReleased ==
  ev.kind \in {"unmount", "rebuild"} =>
    /\ \A k \in TornMeshes(ev.inst) : Released(heap[k])
    /\ phase[ev.inst] = "unmounted" =>
         /\ slides[ev.inst] = <<>>
         /\ ~refs[ev.inst].rendererRef
         /\ ~refs[ev.inst].sceneRef
         /\ ~refs[ev.inst].cameraRef

\* C6 (as claimed): a texture load that completes, with an image or with an
\* error, changes no mesh of a torn-down effect run.
C6_LateLoadIsNoOp ==
  [][ev'.kind \in {"load", "loaderror"} =>
       \A k \in DOMAIN heap :
         k \in TornMeshes(k[1]) => heap'[k] = heap[k]]_vars

\* C7 (as claimed): once the zero-size re-check has run, no error has been
\* raised and the engine is initialised: panels created, listeners
\* registered, frame loop running.
C7_ZeroSizeRecovers ==
  (ev.kind = "timer" /\ ev.key = "recheck") =>
    /\ err = {}
    /\ effect[ev.inst] = "full"
    /\ slides[ev.inst] # <<>>
    /\ listeners[ev.inst] # {}
    /\ \E f \in raf : f.inst = ev.inst

\* The state of a first mount of instance i with its present props, at the
\* present time, with the container size the last effect run saw.
FreshMount(i) ==
  setup(i, variant[i], props[i], effect[i] = "zero",
        [refs |-> InitialRefs, slides |-> <<>>, heap |-> <<>>,
         listeners |-> {}, raf |-> {}, rafSeq |-> 0, timers |-> {},
         loads |-> {}, effect |-> "none", gen |-> 0],
        now)

\* What the layout keeps of a panel.
PanelLayout(m) ==
  [index |-> m.index, x |-> m.x, targetX |-> m.targetX,
   currentX |-> m.currentX, scaleX |-> m.scaleX, scaleY |-> m.scaleY]

\* C8 (as claimed): right after a configuration change the Engine State and
\* the panels equal those of a fresh mount with the new configuration.
C8_RebuildIsFreshMount ==
  ev.kind = "rebuild" =>
    LET i == ev.inst
        fresh == FreshMount(i)
    IN /\ EngineState(refs[i]) = EngineState(fresh.refs)
       /\ Len(slides[i]) = Len(fresh.slides)
       /\ \A n \in 1..Len(slides[i]) :
            PanelLayout(Panels(i)[n])
              = PanelLayout(fresh.heap[fresh.slides[n]])

\* C9 (as claimed): no single step changes the Engine State of two
\* instances.
C9_Independent ==
  [][\A i, j \in Inst :
       i # j => ~(/\ EngineState(refs'[i]) # EngineState(refs[i])
                  /\ EngineState(refs'[j]) # EngineState(refs[j]))]_vars

\* C10: a wheel event with vertical delta d sets targetDistortionFactor to
\* min(1, old + min(|d| x 0.001, 1)), subtracts d x 0.01 from targetPosition,
\* sets autoScrollSpeed to min(|d| x 0.0005, 0.05) x sign(d) and sets
\* isScrolling, from any prior state.
C10_WheelEffect ==
  [][ev'.kind = "wheel" =>
       LET d == ev'.n
           old == refs[ev'.inst]
           new == refs'[ev'.inst]
       IN /\ new.targetDistortionFactor
               = Min2(SCALE, old.targetDistortionFactor
                               + Min2(Abs(d) * 10, SCALE))
          /\ new.targetPosition = old.targetPosition - d * 100
          /\ new.autoScrollSpeed = Min2(Abs(d) * 5, 500) * Sign(d)
          /\ new.isScrolling]_vars

\* C10 witness: the wheel event d = 500 from rest: distortion +0.5,
\* targetPosition -5.0, autoScrollSpeed 0.05.
C10_Witness ==
  /\ ev.kind = "wheel" /\ ev.n = 500
  /\ refs[1].targetDistortionFactor = 5000
  /\ refs[1].targetPosition = -Trunc(totalWidth(props[1]), 2) - 50000
  /\ refs[1].autoScrollSpeed = 500
  /\ refs[1].isScrolling

\* new is min(1, old + impulse); an undefined old stays undefined.
Impulse(old, new, impulse) ==
  IF old = NaN THEN new = NaN ELSE new = Min2(SCALE, old + impulse)

\* C11: on a mounted instance, whatever its drag/scroll state, ArrowRight
\* decreases targetPosition by exactly panelWidth + gap, ArrowLeft increases
\* it by exactly panelWidth + gap, each sets targetDistortionFactor to
\* min(1, old + 0.3), and any other key leaves the Engine State unchanged.
C11_ArrowKeys ==
  [][ev'.kind = "keydown" =>
       \A i \in Inst :
         effect[i] = "full" =>
           LET old == refs[i]
               new == refs'[i]
               unit == props[i].slideWidth + props[i].gap
               step == new.targetPosition - old.targetPosition
               bump == Impulse(old.targetDistortionFactor,
                               new.targetDistortionFactor, 3000)
           IN CASE ev'.key = "ArrowRight" -> step = -unit /\ bump
                [] ev'.key = "ArrowLeft" -> step = unit /\ bump
                [] OTHER -> EngineState(new) = EngineState(old)]_vars

\* C11 witness: ArrowRight pressed in the middle of a drag.
C11_Witness ==
  /\ ev.kind = "keydown" /\ ev.key = "ArrowRight"
  /\ refs[1].isDragging
  /\ refs[1].targetPosition
       = -Trunc(totalWidth(props[1]), 2) - slideUnit(props[1])
  /\ refs[1].targetDistortionFactor = 3000

\* C12: on a frame (deltaTime > 0) that leaves targetPosition where it was,
\* the error |targetPosition - currentPosition| does not increase and
\* currentPosition does not pass to the other side of targetPosition.
C12_NoOvershoot ==
  [][ev'.kind = "frame" =>
       LET old == refs[ev'.inst]
           new == refs'[ev'.inst]
           before == old.targetPosition - old.currentPosition
           after == new.targetPosition - new.currentPosition
       IN (new.lastTime > old.lastTime
             /\ new.targetPosition = old.targetPosition) =>
            /\ Abs(after) <= Abs(before)
            /\ Sign(after) \in {0, Sign(before)}]_vars

\* C12 witness: a frame after an ArrowRight, with no momentum: the target
\* is one panel unit away and currentPosition has moved a tenth of the way.
C12_Witness ==
  /\ ev.kind = "frame"
  /\ refs[1].lastTime > 1000
  /\ refs[1].autoScrollSpeed = 0
  /\ refs[1].targetPosition
       = -Trunc(totalWidth(props[1]), 2) - slideUnit(props[1])
  /\ refs[1].currentPosition
       = -Trunc(totalWidth(props[1]), 2) - Trunc(slideUnit(props[1]), 10)

\* C13: on a frame where a panel's new wrapped position differs from its
\* previous targetX by more than 2 x panelWidth, the panel's currentX equals
\* the new wrapped value at the end of the frame.
C13_WrapJumpIsDirect ==
  [][ev'.kind = "frame" =>
       \A n \in 1..Len(slides[ev'.inst]) :
         LET k == slides[ev'.inst][n]
             jump == Abs(heap'[k].targetX - heap[k].targetX)
         IN jump > 2 * props[ev'.inst].slideWidth =>
              heap'[k].currentX = heap'[k].targetX]_vars

\* C13 witness: the frame after an ArrowRight from rest carries panel 0 from
\* the positive end of the range to the negative end, and its currentX is
\* the new wrapped value.
C13_Witness ==
  /\ ev.kind = "frame"
  /\ Panels(1)[1].targetX
       = Trunc(slideUnit(props[1]), 10) - Trunc(totalWidth(props[1]), 2)
  /\ Panels(1)[1].currentX = Panels(1)[1].targetX

\* C14 (as claimed): on a frame where a panel's wrapped targetX goes from
\* one end of the range to the other (it changes by more than half the loop
\* width), currentX is set directly to the new value, never eased across.
C14_JumpSuppressed ==
  [][ev'.kind = "frame" =>
       \A n \in 1..Len(slides[ev'.inst]) :
         LET k == slides[ev'.inst][n]
             jump == Abs(heap'[k].targetX - heap[k].targetX)
         IN 2 * jump > totalWidth(props[ev'.inst]) =>
              heap'[k].currentX = heap'[k].targetX]_vars

\* C15: from the effect run that builds the engine until its teardown, the
\* registry holds exactly panelCount panels, the panel in slot i has index
\* i, and its targetX is the wrap of i x (panelWidth + gap) minus
\* currentPosition: the base offset of a slot never changes.
C15_RegistryFixed ==
  \A i \in Inst :
    effect[i] = "full" =>
      /\ Len(slides[i]) = props[i].slideCount
      /\ \A n \in 1..Len(slides[i]) :
           LET baseOffset == (n - 1) * (props[i].slideWidth + props[i].gap)
               raw == baseOffset - refs[i].currentPosition
           IN /\ Panels(i)[n].index = n - 1
              /\ (Panels(i)[n].targetX - raw) % totalWidth(props[i]) = 0

\* C15 witness: ten panels of width 3.0 and gap 0.1 after a frame and a
\* texture load: panel 5 is in slot 5 and its base offset is 15.5.
C15_Witness ==
  /\ ev.kind = "load"
  /\ refs[1].lastTime > 1000
  /\ Len(slides[1]) = 10
  /\ Panels(1)[6].index = 5
  /\ 5 * slideUnit(props[1]) = 155000
  /\ Panels(1)[6].targetX = wrap(155000 - refs[1].currentPosition, 310000)

\* C16 (as claimed): the frame an effect run executes itself, with
\* time = lastTime and so deltaTime = 0, leaves currentPosition (the
\* prevPosition it recorded) and currentDistortionFactor unchanged.
C16_ZeroDeltaIdempotent ==
  [][\A i \in Inst :
       (ev'.kind \in {"mount", "rebuild"} /\ ev'.inst = i
          /\ effect'[i] = "full") =>
         /\ refs'[i].currentPosition = refs'[i].prevPosition
         /\ refs'[i].currentDistortionFactor
              = refs[i].currentDistortionFactor]_vars

\* Without input, only frames and timers change the momentum.  In a state
\* with no timer pending where the momentum step of a frame leaves
\* autoScrollSpeed as it is, every later frame leaves it as it is.
MomentumAtRest(i) ==
  /\ effect[i] = "full"
  /\ \A t \in timers : t.inst # i
  /\ momentum(variant[i], refs[i]).autoScrollSpeed = refs[i].autoScrollSpeed

\* C17 (as claimed): without further input autoScrollSpeed reaches exactly
\* 0 after finitely many frames; so wherever the momentum has come to rest,
\* autoScrollSpeed is 0.
C17_MomentumDiesOut ==
  \A i \in Inst : MomentumAtRest(i) => refs[i].autoScrollSpeed = 0

\* The texture state of mesh k, given the heap and the loads in flight.
TextureStateOf(h, ls, k) ==
  IF \E l \in ls : l.mesh = k THEN "Pending"
  ELSE IF h[k].map = "none" THEN "Failed" ELSE "Loaded"

\* A panel in its fallback solid-colour state, at scale (1, 1).
Fallback(m) ==
  m.map = "none" /\ m.color = "fallback"
    /\ m.scaleX = SCALE /\ m.scaleY = SCALE

\* C18: a panel goes from Pending to Failed only when its load fails; the
\* failure raises no error and leaves the frame loop scheduled; a Failed
\* panel is in its fallback colour at scale (1, 1), and it stays Failed,
\* with no new load, through every later step.
C18_FailedIsPermanent ==
  [][\A k \in DOMAIN heap :
       LET was == TextureStateOf(heap, loads, k)
           is == TextureStateOf(heap', loads', k)
       IN /\ (was = "Pending" /\ is = "Failed") =>
               /\ ev'.kind = "loaderror"
               /\ err' = err /\ raf' = raf
          /\ is = "Failed" => was # "Loaded" /\ Fallback(heap'[k])
          /\ was = "Failed" => is = "Failed"]_vars

\* C18 witness: a frame has run after the load of panel 0 failed: the panel
\* is Failed and in its fallback state, no error was raised and the next
\* frame is scheduled.
C18_Witness ==
  /\ ev.kind = "frame"
  /\ <<1, 1, 0>> \in DOMAIN heap
  /\ TextureStateOf(heap, loads, <<1, 1, 0>>) = "Failed"
  /\ Fallback(heap[<<1, 1, 0>>])
  /\ err = {}
  /\ \E f \in raf : f.inst = 1

\* A panel the guard of updateCurve turns away.
Damaged(m) == m.geometry = "missing" \/ ~m.originalVertices

\* C19: a frame over a registry with a damaged panel raises no error and
\* reaches its render call; every panel, the damaged one too, gets its
\* wrapped targetX and, when visible, its position; every visible panel that
\* is not damaged gets the frame's displacement; the damaged panel's
\* displacement is left as it was.
C19_BadPanelSkipped ==
  [][ev'.kind = "frame" =>
       LET i == ev'.inst
           new == refs'[i]
           tw == totalWidth(props[i])
       IN /\ err' = err
          /\ renders(new)
          /\ \A n \in 1..Len(slides[i]) :
               LET k == slides[i][n]
                   raw == (n - 1) * slideUnit(props[i]) - new.currentPosition
                   visible == 4 * Abs(heap'[k].currentX)
                                < 3 * (tw + 2 * props[i].slideWidth)
               IN /\ (heap'[k].targetX - raw) % tw = 0
                  /\ visible => heap'[k].x = heap'[k].currentX
                  /\ Damaged(heap[k]) =>
                       heap'[k].curvature = heap[k].curvature
                  /\ (visible /\ ~Damaged(heap[k])) =>
                       heap'[k].curvature
                         = Times(new.currentDistortionFactor,
                                 maxDistortion)]_vars

\* C19 witness: after an arrow key and a frame, the damaged panel in slot 0
\* has followed the scroll position but kept its displacement 0, while its
\* neighbour in slot 1 has the frame's displacement.
C19_Witness ==
  /\ ev.kind = "frame"
  /\ refs[1].currentDistortionFactor > 0
  /\ refs[1].currentPosition # 0
  /\ Damaged(Panels(1)[1])
  /\ (Panels(1)[1].targetX + refs[1].currentPosition)
       % totalWidth(props[1]) = 0
  /\ Panels(1)[1].x = Panels(1)[1].currentX
  /\ Panels(1)[1].curvature = 0
  /\ ~Damaged(Panels(1)[2])
  /\ Panels(1)[2].curvature > 0

\* C20: currentDistortionFactor never exceeds the largest value
\* targetDistortionFactor has held since mount.  Stated as the induction
\* that gives it: the two start equal, and no step leaves
\* currentDistortionFactor above both its own last value and the value
\* targetDistortionFactor holds after the step; so currentDistortionFactor
\* is never above the maximum of the values targetDistortionFactor has
\* held.  "Exceeds" is the comparison of the language: an undefined factor
\* exceeds nothing.
C20_NoDistortionOvershoot ==
  /\ \A i \in Inst :
       ~Gt(refs[i].currentDistortionFactor, refs[i].targetDistortionFactor)
  /\ [][\A i \in Inst :
          ~Gt(refs'[i].currentDistortionFactor,
              MathMax(refs[i].currentDistortionFactor,
                      refs'[i].targetDistortionFactor))]_vars

\* C20 witness: a frame after an arrow key, currentDistortionFactor part of
\* the way up to targetDistortionFactor.
C20_Witness ==
  /\ ev.kind = "frame"
  /\ refs[1].targetDistortionFactor < NaN
  /\ refs[1].currentDistortionFactor > 0
  /\ refs[1].currentDistortionFactor < refs[1].targetDistortionFactor

\* C21: on every frame, when the pointer is not dragging and
\* |autoScrollSpeed| > 0.001, targetPosition grows by autoScrollSpeed and
\* autoScrollSpeed is multiplied by max(0.92, 0.97 - 0.5 |autoScrollSpeed|)
\* and snapped to 0 below 0.001; in every other case autoScrollSpeed is 0
\* after the frame and targetPosition is where it was.
C21_MomentumStep ==
  [][ev'.kind = "frame" =>
       LET old == refs[ev'.inst]
           new == refs'[ev'.inst]
           factor == IF 9200 > 9700 - Mul(Abs(old.autoScrollSpeed), 5000)
                     THEN 9200
                     ELSE 9700 - Mul(Abs(old.autoScrollSpeed), 5000)
           slowed == Mul(old.autoScrollSpeed, factor)
       IN IF ~old.isDragging /\ Abs(old.autoScrollSpeed) > 10
          THEN /\ new.targetPosition
                    = old.targetPosition + old.autoScrollSpeed
               /\ new.autoScrollSpeed = IF Abs(slowed) < 10 THEN 0 ELSE slowed
          ELSE /\ new.autoScrollSpeed = 0
               /\ new.targetPosition = old.targetPosition]_vars

\* C22: a press over a panel enters Dragging with the press's X as anchor;
\* a press over no panel leaves isDragging and every Engine State variable
\* as they were, so Dragging is entered only by a press over a panel.
C22_PressNeedsPanel ==
  [][ev'.kind = "mousedown" =>
       LET i == ev'.inst
       IN /\ (ev'.key = "hit" /\ Listening(i, "canvas", "mousedown")) =>
               /\ refs'[i].isDragging
               /\ refs'[i].dragStartX = ev'.n
          /\ ev'.key = "miss" =>
               /\ EngineState(refs'[i]) = EngineState(refs[i])
               /\ refs'[i].dragStartX = refs[i].dragStartX
          /\ (refs'[i].isDragging /\ ~refs[i].isDragging) =>
               ev'.key = "hit"]_vars

\* C22 witness: a press beside the panels while the distortion target set
\* by an arrow key is still up.
C22_Witness ==
  /\ ev.kind = "mousedown"
  /\ ev.key = "miss"
  /\ ~refs[ev.inst].isDragging
  /\ refs[ev.inst].targetDistortionFactor > 0

\* C23: a pointer move at X while Dragging, D = X - (X of the previous move
\* or of the press), subtracts D x 0.02 from targetPosition and sets
\* targetDistortionFactor to min(1, old + min(|D| x 0.02, 1)); a pointer
\* move while Idle changes no Engine State variable.
C23_DragMove ==
  [][ev'.kind = "mousemove" =>
       \A i \in Inst :
         Listening(i, "window", "mousemove") =>
           LET old == refs[i]
               new == refs'[i]
               D == ev'.n - old.dragLastX
           IN IF old.isDragging
              THEN /\ new.targetPosition = old.targetPosition - D * 200
                   /\ Impulse(old.targetDistortionFactor,
                              new.targetDistortionFactor,
                              Min2(Abs(D) * 200, SCALE))
                   /\ new.isDragging
              ELSE EngineState(new) = EngineState(old)]_vars

\* C23 witness: the second move of a drag (press at 100, a move to 400, a
\* move to 130): D = -270 is measured from the first move, whose impulse
\* has already filled targetDistortionFactor.
C23_Witness ==
  /\ ev.kind = "mousemove"
  /\ ev.n = 130
  /\ refs[1].isDragging
  /\ refs[1].dragLastX = 130
  /\ refs[1].dragStartX = 100
  /\ refs[1].targetDistortionFactor = SCALE

\* C24: a release while Dragging ends the drag; with the flick velocity
\* v = (lastX - startX) x 0.005, if |v| > 0.5 autoScrollSpeed becomes
\* -v x momentumMultiplier x 0.05 and targetDistortionFactor becomes
\* min(1, old + |v| x distortionSensitivity x 1.5); otherwise
\* autoScrollSpeed is 0 and targetDistortionFactor is as it was.  A release
\* while Idle changes no Engine State variable.
C24_Release ==
  [][ev'.kind = "mouseup" =>
       \A i \in Inst :
         Listening(i, "window", "mouseup") =>
           LET old == refs[i]
               new == refs'[i]
               v == (old.dragLastX - old.dragStartX) * 50
           IN IF old.isDragging
              THEN /\ ~new.isDragging
                   /\ IF Abs(v) > 5000
                      THEN /\ new.autoScrollSpeed
                                = Mul(Mul(-v, momentumMultiplier), 500)
                           /\ Impulse(old.targetDistortionFactor,
                                      new.targetDistortionFactor,
                                      Mul(Mul(Abs(v), distortionSensitivity),
                                          15000))
                      ELSE /\ new.autoScrollSpeed = 0
                           /\ new.targetDistortionFactor
                                = old.targetDistortionFactor
              ELSE EngineState(new) = EngineState(old)]_vars

\* C24 witness: the release of a flick from 100 to 400 (v = 1.5), which
\* seeds autoScrollSpeed = -0.15.
C24_Witness ==
  /\ ev.kind = "mouseup"
  /\ ~refs[1].isDragging
  /\ refs[1].dragStartX = 100
  /\ refs[1].dragLastX = 400
  /\ refs[1].autoScrollSpeed = -1500

\* C25: the pointer leaving while Dragging ends the drag as a release does:
\* after a leave event the instance is not Dragging.
C25_LeaveEndsDrag ==
  [][ev'.kind = "mouseleave" => ~refs'[ev'.inst].isDragging]_vars

\* The wheel timer of instance i is still running: its last wheel event is
\* less than 150 ms old.
WheelTimerRunning(i) ==
  \E t \in timers : t.kind = "scroll" /\ t.inst = i /\ t.due > now

\* C26: a wheel event sets isScrolling and leaves exactly one wheel timer,
\* due 150 ms later; that timer clears isScrolling; while it is still
\* running no other timer clears isScrolling; and a frame that finds
\* isScrolling cleared adds no momentum to targetPosition.
C26_ScrollFlagTrailing ==
  [][/\ (ev'.kind = "wheel" /\ Listening(ev'.inst, "canvas", "wheel")) =>
          /\ refs'[ev'.inst].isScrolling
          /\ {t \in timers' : t.kind = "scroll" /\ t.inst = ev'.inst}
               = {[kind |-> "scroll", inst |-> ev'.inst, due |-> now + 150]}
     /\ (ev'.kind = "timer" /\ ev'.key = "scroll") =>
          ~refs'[ev'.inst].isScrolling
     /\ (ev'.kind = "timer" /\ ev'.key # "scroll"
           /\ refs[ev'.inst].isScrolling /\ WheelTimerRunning(ev'.inst)) =>
          refs'[ev'.inst].isScrolling
     /\ (ev'.kind = "frame" /\ variant[ev'.inst] # "drag"
           /\ ~refs[ev'.inst].isScrolling) =>
          refs'[ev'.inst].targetPosition = refs[ev'.inst].targetPosition
    ]_vars

\* C27: in the drag variant, autoScrollSpeed is 0 in every state where the
\* instance is Dragging; a press on a panel sets it to 0 at once; and a
\* frame during a drag leaves targetPosition where it was.
C27_NoMomentumWhileDragging ==
  /\ [](\A i \in Inst :
          (variant[i] = "drag" /\ refs[i].isDragging) =>
            refs[i].autoScrollSpeed = 0)
  /\ [][/\ (ev'.kind = "mousedown" /\ ev'.key = "hit"
              /\ Listening(ev'.inst, "canvas", "mousedown")) =>
             refs'[ev'.inst].autoScrollSpeed = 0
        /\ (ev'.kind = "frame" /\ variant[ev'.inst] = "drag"
              /\ refs[ev'.inst].isDragging) =>
             refs'[ev'.inst].targetPosition
               = refs[ev'.inst].targetPosition]_vars

\* C27 witness: a frame of a drag whose press caught the panels with the
\* momentum of a flick (-0.15) still whole: targetPosition is where the
\* flick left it.
C27_Witness ==
  /\ ev.kind = "frame"
  /\ refs[1].isDragging
  /\ refs[1].autoScrollSpeed = 0
  /\ flung(mounted("drag", props[1], 1000).refs).autoScrollSpeed = -1500
  /\ refs[1].targetPosition
       = flung(mounted("drag", props[1], 1000).refs).targetPosition

\* C28: in the wheel/touch variant the momentum a wheel event seeds has the
\* direction of the event's own displacement of targetPosition, the
\* momentum a touch flick seeds has the direction of the touch drag
\* (targetPosition moves against the finger's X), and a frame moves
\* targetPosition by the seeded momentum or not at all.
C28_MomentumFollowsScroll ==
  [][LET i == ev'.inst
     IN /\ (ev'.kind = "wheel" /\ Listening(i, "canvas", "wheel")) =>
             Sign(refs'[i].autoScrollSpeed)
               = Sign(refs'[i].targetPosition - refs[i].targetPosition)
        /\ (ev'.kind = "touchend" /\ Listening(i, "canvas", "touchend")
              /\ isFlick(refs[i])) =>
             Sign(refs'[i].autoScrollSpeed)
               = Sign(refs[i].touchStartX - refs[i].touchLastX)
        /\ (ev'.kind = "frame" /\ variant[i] # "drag") =>
             refs'[i].targetPosition - refs[i].targetPosition
               \in {0, refs[i].autoScrollSpeed}]_vars

\* C29: no input event (pointer move, pointer release, wheel, touch move,
\* touch release, arrow key) leaves targetDistortionFactor lower than it
\* found it.
C29_InputNeverLowers ==
  [][ev'.kind \in {"mousemove", "mouseup", "wheel", "touchmove", "touchend",
                   "keydown"} =>
       \A i \in Inst :
         ~Lt(refs'[i].targetDistortionFactor,
             refs[i].targetDistortionFactor)]_vars

\* The multipliers the per-frame decay of targetDistortionFactor can use.
DecayRates ==
  {distortionDecay, Mul(distortionDecay, 9800), Mul(distortionDecay, 9000)}

\* The mean of a velocity history.
MeanOf(h) ==
  IF SumSeq(h) = NaN \/ SumSeq(h) = Infinity THEN SumSeq(h)
  ELSE Trunc(SumSeq(h), Len(h))

\* C30: on every frame, with avgVelocity the mean of the 5-slot velocity
\* history and movementDistortion = min(1, avgVelocity x
\* distortionSensitivity), the frame raises targetDistortionFactor to
\* max(targetDistortionFactor, movementDistortion) exactly when
\* avgVelocity > 0.05 or the pointer is dragging, and otherwise does not
\* raise it; what the frame leaves is that value times the frame's decay
\* rate.
C30_RaiseByAverage ==
  [][ev'.kind = "frame" =>
       LET old == refs[ev'.inst]
           new == refs'[ev'.inst]
           avgVelocity == MeanOf(new.velocityHistory)
           movementDistortion ==
             MathMin(SCALE, Times(avgVelocity, distortionSensitivity))
           raised == IF Gt(avgVelocity, 500) \/ old.isDragging
                     THEN MathMax(old.targetDistortionFactor,
                                  movementDistortion)
                     ELSE old.targetDistortionFactor
       IN \E rate \in DecayRates :
            new.targetDistortionFactor = Times(raised, rate)]_vars

\* Values of avgVelocity from 0.2 up.
FastAverages == {2000, 5000, 200000}

\* The context of a frame that is actively dragging/scrolling, not
\* decelerating, with avgVelocity a.
activeFast(c, a) ==
  [c EXCEPT !.dec = FALSE, !.avg = a,
            !.r = [@ EXCEPT !.isDragging = TRUE, !.isScrolling = TRUE]]

\* The contexts of a frame that is decelerating, slow, or idle.
notActiveFast(c) ==
  {[c EXCEPT !.dec = TRUE], [c EXCEPT !.avg = 0],
   [c EXCEPT !.r = [@ EXCEPT !.isDragging = FALSE, !.isScrolling = FALSE]]}

\* C31: the multiplier a frame applies to targetDistortionFactor when it is
\* actively dragging/scrolling, not decelerating and has avgVelocity >= 0.2
\* is at least the multiplier it applies when it is decelerating, slow or
\* idle.  Checked on the context of every frame of every behaviour, with
\* avgVelocity, isDecelerating and the drag/scroll flags set to the two
\* cases.
C31_FastPersistsLonger ==
  [][ev'.kind = "frame" =>
       LET v == variant[ev'.inst]
           c == integrate(v, refs[ev'.inst], refs'[ev'.inst].lastTime, 0)
       IN \A a \in FastAverages : \A slow \in notActiveFast(activeFast(c, a)) :
            decayRate(v, activeFast(c, a)) >= decayRate(v, slow)]_vars

\* A defined, finite number.
Finite(x) == x # NaN /\ x # Infinity

\* C32: no state holds an undefined or infinite value in velocityHistory,
\* peakVelocity or the distortion factors, whatever frames led to it (the
\* first frame, a frame with zero elapsed time, a frame with no movement);
\* and no frame is classified as decelerating while peakVelocity <= 0.5.
C32_NoDegenerateNumbers ==
  /\ [](\A i \in Inst :
          /\ \A k \in 1..Len(refs[i].velocityHistory) :
               Finite(refs[i].velocityHistory[k])
          /\ Finite(refs[i].peakVelocity)
          /\ Finite(refs[i].targetDistortionFactor)
          /\ Finite(refs[i].currentDistortionFactor))
  /\ [][ev'.kind = "frame" =>
          LET v == variant[ev'.inst]
              c == raisePeak(average(measure(v,
                     integrate(v, refs[ev'.inst],
                               refs'[ev'.inst].lastTime, 0))))
          IN ~Gt(c.r.peakVelocity, 5000) => ~classify(c).dec]_vars

\* C33: the first frame after mount uses the fallback deltaTime of 0.016 s,
\* every later frame the time since the previous frame.  deltaTime is read
\* off the velocity the frame pushes into the history,
\* |currentPosition - prevPosition| / deltaTime.
C33_DeltaTime ==
  [][LET i == ev'.inst
         new == refs'[i]
         moved == new.currentPosition - new.prevPosition
     IN /\ (ev'.kind = "mount" /\ effect'[i] = "full") =>
             new.velocityHistory[5] = Velocity(moved, 16)
        /\ ev'.kind = "frame" =>
             new.velocityHistory[5]
               = Velocity(moved, new.lastTime - refs[i].lastTime)]_vars

\* C34: once an instance is torn down, none of its timers (zero-size
\* re-check, wheel trailing timer, touch-release timer) is pending.
C34_NoTimerAfterTeardown ==
  \A i \in Inst :
    phase[i] = "unmounted" => \A t \in timers : t.inst # i

\* The frame callbacks of instance i that are scheduled and not yet run.
PendingFrames(i) == {f \in raf : f.inst = i}

\* C35: across mounts, frames, rebuilds and unmounts, an instance has at
\* most one frame callback pending.
C35_OneFramePending ==
  \A i \in Inst : Cardinality(PendingFrames(i)) <= 1

\* C35 witness: a frame of the loop a rebuild started; the rebuild's
\* cleanup cancelled the callback of the loop before, and the one callback
\* pending is the one this frame scheduled.
C35_Witness ==
  /\ ev.kind = "frame"
  /\ gen[1] = 2
  /\ effect[1] = "full"
  /\ PendingFrames(1) = {[id |-> rafSeq, inst |-> 1, p |-> props[1]]}

\* C36: every panel of the registry has |currentX| <= totalWidth/2, which
\* is inside the visibility window of 1.5 x (totalWidth/2 + panelWidth); so
\* every frame sets every panel's position to its currentX and its
\* displacement to the frame's distortion: no panel is culled.
C36_NeverCulled ==
  /\ [](\A i \in Inst : \A n \in 1..Len(slides[i]) :
          /\ 2 * Abs(Panels(i)[n].currentX) <= totalWidth(props[i])
          /\ 4 * Abs(Panels(i)[n].currentX)
               < 3 * (totalWidth(props[i]) + 2 * props[i].slideWidth))
  /\ [][ev'.kind = "frame" =>
          \A n \in 1..Len(slides[ev'.inst]) :
            LET m == heap'[slides[ev'.inst][n]]
            IN /\ m.x = m.currentX
               /\ m.curvature
                    = Times(refs'[ev'.inst].currentDistortionFactor,
                            maxDistortion)]_vars

\* C36 witness: a frame after ArrowRight; the panel of slot 0 has been
\* carried over the wrap boundary to the far left and is drawn there.
C36_Witness ==
  /\ ev.kind = "frame"
  /\ effect[1] = "full"
  /\ refs[1].currentPosition < -Trunc(totalWidth(props[1]), 2)
  /\ Panels(1)[1].currentX < 0
  /\ Panels(1)[1].x = Panels(1)[1].currentX
  /\ 2 * Abs(Panels(1)[1].currentX) > totalWidth(props[1]) - props[1].slideWidth

\* The aspect-fit scale <<scaleX, scaleY>> of an image of aspect a on a
\* panel of aspect s.
FitScale(mode, a, s) ==
  IF mode = "contain"
  THEN IF a > s THEN <<SCALE, Trunc(s * SCALE, a)>>
       ELSE <<Trunc(a * SCALE, s), SCALE>>
  ELSE IF a > s THEN <<Trunc(a * SCALE, s), SCALE>>
       ELSE <<SCALE, Trunc(s * SCALE, a)>>

\* The fit mode of instance i (the first export has no props: contain).
FitModeOf(i) ==
  IF variant[i] = "wheel0" THEN "contain" ELSE props[i].imageFitMode

\* C37: a panel without a texture has scale (1,1); the load of a panel of
\* the registry sets its scale to the aspect fit of the image for the
\* instance's fit mode (both factors <= 1 in contain mode, >= 1 in cover
\* mode, one of them 1); every other step leaves every panel's scale as it
\* was.
C37_ScaleSetOnLoad ==
  /\ [](\A k \in DOMAIN heap :
          heap[k].map = "none" => heap[k].scaleX = SCALE /\ heap[k].scaleY = SCALE)
  /\ [][\A k \in DOMAIN heap :
          LET i == k[1]
              s == Trunc(props[i].slideWidth * SCALE, props[i].slideHeight)
              sc == <<heap'[k].scaleX, heap'[k].scaleY>>
          IN IF ev'.kind = "load" /\ heap'[k] # heap[k]
                /\ k \in Range(slides[i])
             THEN /\ \E img \in Images :
                       sc = FitScale(FitModeOf(i),
                                     Trunc(img[1] * SCALE, img[2]), s)
                  /\ FitModeOf(i) = "contain" =>
                       sc[1] <= SCALE /\ sc[2] <= SCALE
                  /\ FitModeOf(i) = "cover" =>
                       sc[1] >= SCALE /\ sc[2] >= SCALE
             ELSE ev'.kind # "load" =>
                    sc = <<heap[k].scaleX, heap[k].scaleY>>]_vars

\* C37 witness: a frame after the load of a panel of a cover-mode slider;
\* the panel is still scaled up on one axis.
C37_Witness ==
  /\ ev.kind = "frame"
  /\ effect[1] = "full"
  /\ FitModeOf(1) = "cover"
  /\ Panels(1)[1].map = "live"
  /\ (Panels(1)[1].scaleX > SCALE \/ Panels(1)[1].scaleY > SCALE)

\* The distance between x and y around a loop of length tw.
CircularDistance(x, y, tw) ==
  Min2((x - y) % tw, tw - ((x - y) % tw))

\* C38: in every state a frame has left, the targetX of any two distinct
\* panels of an instance are at least panelWidth + gap apart around the
\* loop of length totalWidth.
C38_SpacingKept ==
  \A i \in Inst : \A a, b \in 1..Len(slides[i]) :
    a # b =>
      CircularDistance(Panels(i)[a].targetX, Panels(i)[b].targetX,
                       totalWidth(props[i])) >= slideUnit(props[i])

\* C38 witness: a frame after ArrowRight has carried the panel of slot 0
\* over the wrap boundary to the far left; the panel of the last slot, at
\* the far right, is its neighbour around the loop, one panelWidth + gap
\* away.
C38_Witness ==
  /\ ev.kind = "frame"
  /\ effect[1] = "full"
  /\ Panels(1)[1].targetX < 0
  /\ Panels(1)[Len(slides[1])].targetX - Panels(1)[1].targetX
       = totalWidth(props[1]) - slideUnit(props[1])

\* Panel k of instance i was teleported by the step: its currentX was set
\* to its new targetX without easing.
Teleported(k) ==
  heap'[k].currentX = heap'[k].targetX /\ heap[k].currentX # heap'[k].targetX

\* The wrapped targetX of panel k of instance i crossed the wrap boundary
\* in the step: it did not simply follow the shift of currentPosition.
CrossedBoundary(i, k) ==
  heap'[k].targetX - heap[k].targetX
    # -(refs'[i].currentPosition - refs[i].currentPosition)

\* C39: a frame teleports a panel (assigns currentX directly) only if that
\* panel's wrapped targetX crossed the wrap boundary in that frame; a large
\* change of currentPosition that does not wrap the panel is eased.
C39_TeleportOnlyOnWrap ==
  [][ev'.kind = "frame" =>
       \A k \in Range(slides[ev'.inst]) :
         Teleported(k) => CrossedBoundary(ev'.inst, k)]_vars

=============================================================================
